---- MODULE Spec2Model ----
(***************************************************************************)
(* A model of yt-music.py: the download / normalize / tag / move pipeline  *)
(* of process_audio, with its helpers normalize_filename, set_tags,        *)
(* find_genre and move_file.                                               *)
(*                                                                         *)
(* Python strings are sequences of characters; a character is a TLA+       *)
(* string of length one.  The characters of the source that are not ASCII  *)
(* are written as named atoms (RSQUO, ENDASH, ...), one atom per           *)
(* character.  None is the Python value None.                              *)
(***************************************************************************)
EXTENDS Naturals, Sequences, FiniteSets, TLC

VARIABLES
    pc,            \* position in main / process_audio / set_tags / find_genre
    argv,          \* sys.argv[1:]: the arguments after the script name
    album,         \* process_audio's local album
    genre,         \* process_audio's parameter genre, then set_tags' local
    filename,      \* the file name download_audio returned
    uploader,      \* info_dict["uploader"]
    description,   \* info_dict["description"]
    upload_date,   \* info_dict["upload_date"]
    new_filename,  \* the result of normalize_filename
    artist,        \* process_audio's local artist
    title,         \* process_audio's local title
    year,          \* process_audio's local year
    match,         \* the result of re.search, NotSearched before the call
    tag_artist,    \* set_tags' local artist (after the casing fix)
    tag,           \* audio_file.tag in memory
    saved,         \* the tag as saved to the file by tag.save()
    load_calls,    \* number of eyed3.load calls on the processed file
    audio_file,    \* what eyed3.load gave for the processed file
    genre_call,    \* the arguments of the find_genre call, None before it
    ref_load,      \* what eyed3.load gave for the reference file
    wiki_calls,    \* the wikipedia.page calls made: <<lang, outcome>>
    log,           \* the logging.error / warning calls of find_genre and album
    dirs,          \* names (on-disk casing) of the directories in DESTINATION
    moved_to,      \* <<directory name, file name>> the file was moved to
    exit_code,     \* the status given to sys.exit, 0 while none was given
    raised         \* the exception that ended the run, None otherwise

vars == <<pc, argv, album, genre, filename, uploader, description, upload_date,
          new_filename, artist, title, year, match, tag_artist, tag, saved,
          load_calls, audio_file, genre_call, ref_load, wiki_calls, log, dirs, moved_to,
          exit_code, raised>>

\* None, and "re.search was not called": sequences of one atom that is no
\* character, so that they compare with every string
None == <<"NONE">>
NotSearched == <<"NOTSEARCHED">>

-----------------------------------------------------------------------------
(* Strings *)

Chars(s) == [i \in 1..Len(s) |-> SubSeq(s, i, i)]

\* The characters of the source outside ASCII, one atom each.
RSQUO == "U+2019"        \* right single quotation mark
ENDASH == "U+2013"       \* en dash
BIGSOLIDUS == "U+29F8"   \* big solidus
FWQUOTE == "U+FF02"      \* fullwidth quotation mark
FWBAR == "U+FF5C"        \* fullwidth vertical line
FWCOLON == "U+FF1A"      \* fullwidth colon

UpperLetters == Chars("ABCDEFGHIJKLMNOPQRSTUVWXYZ")
LowerLetters == Chars("abcdefghijklmnopqrstuvwxyz")
Digits == Chars("0123456789")

IsUpper(c) == \E i \in 1..26 : UpperLetters[i] = c
IsLower(c) == \E i \in 1..26 : LowerLetters[i] = c
IsLetter(c) == IsUpper(c) \/ IsLower(c)
\* \w of the re module, on the characters used here
IsWordChar(c) == IsLetter(c) \/ c = "_" \/ \E i \in 1..10 : Digits[i] = c

LowerChar(c) ==
    IF IsUpper(c) THEN LowerLetters[CHOOSE i \in 1..26 : UpperLetters[i] = c]
    ELSE c
UpperChar(c) ==
    IF IsLower(c) THEN UpperLetters[CHOOSE i \in 1..26 : LowerLetters[i] = c]
    ELSE c

\* str.lower, str.upper
Lower(s) == [i \in 1..Len(s) |-> LowerChar(s[i])]
Upper(s) == [i \in 1..Len(s) |-> UpperChar(s[i])]

\* s[i:] and s[:i] with Python's 0-based i
From(s, i) == SubSeq(s, i + 1, Len(s))
UpTo(s, i) == SubSeq(s, 1, IF i < Len(s) THEN i ELSE Len(s))

\* str.find, 1-based: the first position >= i where p occurs in s, 0 if none
RECURSIVE Find(_, _, _)
Find(s, p, i) ==
    IF i + Len(p) - 1 > Len(s) THEN 0
    ELSE IF s[i] = p[1] /\ SubSeq(s, i, i + Len(p) - 1) = p THEN i
    ELSE Find(s, p, i + 1)

\* p in s
Contains(s, p) == Find(s, p, 1) # 0

\* str.rfind of one character, 1-based, 0 if none
RECURSIVE RFindChar(_, _, _)
RFindChar(s, c, i) ==
    IF i = 0 THEN 0 ELSE IF s[i] = c THEN i ELSE RFindChar(s, c, i - 1)

\* s.replace(old, new): every occurrence, left to right, not overlapping.
\* old is never empty in this program.
RECURSIVE Replace(_, _, _)
\* the replacement when the first occurrence of old in s is at i (0: none)
ReplaceAt(s, old, new, i) ==
    IF i = 0 THEN s
    ELSE SubSeq(s, 1, i - 1) \o new \o Replace(From(s, i + Len(old) - 1), old, new)
Replace(s, old, new) == ReplaceAt(s, old, new, Find(s, old, 1))

\* s.replace(old, new, 1)
ReplaceFirst(s, old, new) ==
    LET i == Find(s, old, 1) IN
    IF i = 0 THEN s
    ELSE SubSeq(s, 1, i - 1) \o new \o From(s, i + Len(old) - 1)

\* s.split(sep)
RECURSIVE Split(_, _)
\* the parts when the first occurrence of sep in s is at i (0: none)
SplitAt(s, sep, i) ==
    IF i = 0 THEN <<s>>
    ELSE <<SubSeq(s, 1, i - 1)>> \o Split(From(s, i + Len(sep) - 1), sep)
Split(s, sep) == SplitAt(s, sep, Find(s, sep, 1))

\* s.split(sep, 1)
SplitOnce(s, sep) ==
    LET i == Find(s, sep, 1) IN
    IF i = 0 THEN <<s>>
    ELSE <<SubSeq(s, 1, i - 1), From(s, i + Len(sep) - 1)>>

\* sep.join(parts)
RECURSIVE Join(_, _)
Join(parts, sep) ==
    IF Len(parts) = 0 THEN <<>>
    ELSE IF Len(parts) = 1 THEN parts[1]
    ELSE parts[1] \o sep \o Join(Tail(parts), sep)

\* s.strip(): the only whitespace character here is the space
RECURSIVE LStrip(_)
LStrip(s) == IF Len(s) > 0 /\ s[1] = " " THEN LStrip(Tail(s)) ELSE s
RECURSIVE RStrip(_)
RStrip(s) ==
    IF Len(s) > 0 /\ s[Len(s)] = " " THEN RStrip(SubSeq(s, 1, Len(s) - 1)) ELSE s
Strip(s) == RStrip(LStrip(s))

\* os.path.basename: what follows the last "/" (ntpath also splits at a
\* backslash and a drive colon, characters no name here contains)
basename(p) == From(p, RFindChar(p, "/", Len(p)))

\* os.path.splitext: <<root, ext>>; ext starts at the last dot of the last
\* path component unless only dots precede it there
splitext(p) ==
    LET sep == RFindChar(p, "/", Len(p))
        dot == RFindChar(p, ".", Len(p))
    IN  IF dot > sep /\ \E k \in (sep + 1)..(dot - 1) : p[k] # "."
        THEN <<SubSeq(p, 1, dot - 1), From(p, dot - 1)>>
        ELSE <<p, <<>> >>

-----------------------------------------------------------------------------
(* titlecase.titlecase, on one line of text *)

\* PUNCT of the titlecase package, on the characters used here
IsPunct(c) ==
    c \in {"!", "#", "$", "%", "&", "'", "(", ")", "*", "+", ",", "-", ".",
           "/", ":", ";", "?", "@", "[", "]", "_", "{", "|", "}", "~",
           ENDASH}

\* SMALL of the titlecase package
SmallWords ==
    {Chars("a"), Chars("an"), Chars("and"), Chars("as"), Chars("at"),
     Chars("but"), Chars("by"), Chars("en"), Chars("for"), Chars("if"),
     Chars("in"), Chars("of"), Chars("on"), Chars("or"), Chars("the"),
     Chars("to"), Chars("v"), Chars("v."), Chars("via"), Chars("vs"),
     Chars("vs.")}

\* INLINE_PERIOD.search(word): a period between two word characters
InlinePeriod(w) ==
    \E i \in 2..(Len(w) - 1) :
        w[i] = "." /\ IsWordChar(w[i - 1]) /\ IsWordChar(w[i + 1])

\* the number of leading punctuation characters of w
RECURSIVE LeadPunct(_)
LeadPunct(w) ==
    IF Len(w) > 0 /\ IsPunct(w[1]) /\ ~IsWordChar(w[1])
    THEN 1 + LeadPunct(Tail(w)) ELSE 0

\* UC_ELSEWHERE.match(word): after leading punctuation, letters and then an
\* upper-case letter
UcElsewhere(w) ==
    LET p == LeadPunct(w) IN
    \E j \in (p + 2)..Len(w) :
        IsUpper(w[j]) /\ \A k \in (p + 1)..(j - 1) : IsLetter(w[k])

\* CAPFIRST.sub(upper, word): the first word character, when only
\* punctuation precedes it, is made upper case
CapFirst(w) ==
    LET p == LeadPunct(w) IN
    IF p < Len(w) /\ IsWordChar(w[p + 1])
    THEN [w EXCEPT ![p + 1] = UpperChar(w[p + 1])]
    ELSE w

\* one part of a hyphenated word: titlecase of the part alone
TitlePart(w, all_caps) ==
    IF InlinePeriod(w) \/ (~all_caps /\ UcElsewhere(w)) THEN w
    ELSE CapFirst(IF all_caps THEN Lower(w) ELSE w)

RECURSIVE TitleParts(_, _)
TitleParts(parts, all_caps) ==
    IF Len(parts) = 0 THEN <<>>
    ELSE <<TitlePart(parts[1], Upper(parts[1]) = parts[1])>>
         \o TitleParts(Tail(parts), all_caps)

\* one word of the line
TitleWord(w, all_caps) ==
    IF InlinePeriod(w) \/ (~all_caps /\ UcElsewhere(w)) THEN w
    ELSE IF Lower(w) \in SmallWords THEN Lower(w)
    ELSE IF Contains(w, <<"-">>)
         THEN Join(TitleParts(Split(w, <<"-">>), all_caps), <<"-">>)
    ELSE CapFirst(IF all_caps THEN Lower(w) ELSE w)

RECURSIVE TitleWords(_, _)
TitleWords(words, all_caps) ==
    IF Len(words) = 0 THEN <<>>
    ELSE <<TitleWord(words[1], all_caps)>> \o TitleWords(Tail(words), all_caps)

\* small_first_last: a small word that starts or ends the line is capitalized
SmallFirstLast(words) ==
    [i \in 1..Len(words) |->
        IF i \in {1, Len(words)} /\ words[i] \in SmallWords
        THEN CapFirst(words[i]) ELSE words[i]]

titlecase(text) ==
    LET all_caps == Upper(text) = text
        words == Split(text, <<" ">>)
    IN  Join(SmallFirstLast(TitleWords(words, all_caps)), <<" ">>)

-----------------------------------------------------------------------------
(* normalize_filename *)

\* datetime.now().year, as text
CurrentYear == Chars("2026")

\* lines 49-57: replacements of common annoyances
Annoyances ==
    << <<Chars("'"), <<RSQUO>> >>,
       <<Chars("/"), <<>> >>,
       <<Chars("|"), <<>> >>,
       << <<ENDASH>>, <<>> >>,
       << <<BIGSOLIDUS>>, <<>> >>,
       << <<FWQUOTE>>, <<>> >>,
       << <<FWBAR>>, <<>> >>,
       << <<"\"">>, <<>> >> >>

\* lines 58-81: mostly suffixes in video titles
VideoSuffixes ==
    << <<Chars(" (audio)"), <<>> >>,
       <<Chars(" (hq)"), <<>> >>,
       <<Chars(" (lyric video)"), <<>> >>,
       <<Chars(" (lyrics)"), <<>> >>,
       <<Chars(" (music video)"), <<>> >>,
       <<Chars(" (official animated video)"), <<>> >>,
       <<Chars(" (official audio)"), <<>> >>,
       <<Chars(" (official lyric video)"), <<>> >>,
       <<Chars(" (official lyrics video)"), <<>> >>,
       <<Chars(" (official music video)"), <<>> >>,
       <<Chars(" (official video)"), <<>> >>,
       <<Chars(" (official visualizer)"), <<>> >>,
       <<Chars(" (official)"), <<>> >>,
       <<Chars(" (offizielles video)"), <<>> >>,
       <<Chars(" (performance video)"), <<>> >>,
       <<Chars(" [official video]"), <<>> >>,
       <<Chars(" official audio video"), <<>> >>,
       <<Chars(" official lyric video"), <<>> >>,
       <<Chars(" official music video"), <<>> >>,
       <<Chars(" official video clip"), <<>> >>,
       <<Chars(" official video"), <<>> >>,
       <<Chars(" ") \o <<ENDASH>> \o Chars(" official video clip"), <<>> >>,
       <<Chars(" (") \o CurrentYear \o Chars(")"), <<>> >> >>

\* lines 84-88: "featuring", and the double space that comes last
Featuring ==
    << <<Chars(" ft. "), Chars(" feat. ")>>,
       <<Chars(" ft."), Chars(" feat.")>>,
       <<Chars("  "), Chars(" ")>> >>

Slashes == Chars(" // ")
Underscore == Chars("_ ")
Space == Chars(" ")
Separator == Chars(" - ")
Feat == Chars(" feat. ")
FeatTitled == Chars(" Feat. ")
Mp3 == Chars(".mp3")
Topic == Chars(" - Topic")

\* replace_chars: the replacements in the order of the dict
replace_chars(upl) ==
    << <<Slashes \o upl, <<>> >> >>
        \o Annoyances
        \o VideoSuffixes
        \o << <<Underscore \o Lower(upl), <<>> >>,
              <<Space \o Lower(upl), <<>> >> >>
        \o Featuring

\* for char, repl in replace_chars.items(): replace
RECURSIVE apply_replacements(_, _, _)
\* the passes after pass i, whose result is replaced (the test has this
\* pass evaluated before the next one starts)
apply_next(replaced, rules, i) ==
    IF Len(replaced) >= 0 THEN apply_replacements(replaced, rules, i + 1)
    ELSE replaced
apply_replacements(s, rules, i) ==
    IF i > Len(rules) THEN s
    ELSE apply_next(Replace(s, rules[i][1], rules[i][2]), rules, i)

\* Artist: "Title": the first fullwidth colon becomes the separator when
\* what precedes it occurs in the uploader's name
colon_to_separator(s, upl) ==
    LET parts == Split(s, <<FWCOLON, " ">>) IN
    IF Len(parts) >= 2 /\ Contains(Lower(upl), parts[1])
    THEN ReplaceFirst(s, <<FWCOLON, " ">>, Separator)
    ELSE s

\* lines 99-100: the extension is set aside and the name stripped (parted is
\* the pair splitext gives)
strip_name(parted) ==
    IF Len(parted) = 2 THEN <<Strip(parted[1]), parted[2]>> ELSE parted

\* lines 43-100: <<name without extension, stripped; extension>>
cleaned_name(fname, upl) ==
    strip_name(splitext(colon_to_separator(
        apply_replacements(Lower(basename(fname)), replace_chars(upl), 1), upl)))

\* lines 103-108: move "feat." to the end of the title
move_feat(name) ==
    LET feat_parts == Split(name, Feat)
        after_feat == Split(feat_parts[2], Separator)
    IN  IF Len(feat_parts) > 1 /\ Contains(feat_parts[2], Separator)
           /\ Len(after_feat) > 1
        THEN feat_parts[1] \o Separator \o after_feat[2]
             \o Feat \o after_feat[1]
        ELSE name

\* lines 111-113: title case, the extension back, "feat." in lower case
\* (cleaned is the pair cleaned_name gives)
titled_name(cleaned) ==
    IF Len(cleaned) = 2
    THEN Replace(titlecase(move_feat(cleaned[1])) \o cleaned[2], FeatTitled, Feat)
    ELSE cleaned

normalize_filename(fname, upl) == titled_name(cleaned_name(fname, upl))


-----------------------------------------------------------------------------
(* process_audio: the artist / title split and the album *)

\* lines 317-324: artist, title = new_filename.split(" - ", 1); the
\* ValueError of a name without separator selects the uploader
split_artist_title(new_fn, upl) ==
    LET parts == SplitOnce(new_fn, Separator) IN
    IF Len(parts) = 2
    THEN [artist |-> parts[1],
          title |-> Replace(parts[2], Mp3, <<>>)]
    ELSE [artist |-> titlecase(Replace(upl, Topic, <<>>)),
          title |-> Replace(new_fn, Mp3, <<>>)]

\* The quotation marks of the album pattern outside ASCII, one atom each.
LDQUO == "U+201C"        \* left double quotation mark
RDQUO == "U+201D"        \* right double quotation mark
LOW9QUO == "U+201E"      \* double low-9 quotation mark

\* the cue words of the pattern, in the order of its alternation
CueWords ==
    <<Chars("album"), Chars("Album"), Chars("ALBUM"), Chars("single"),
      Chars("Single"), Chars("SINGLE"), Chars("ep"), Chars("EP"),
      Chars("order"), Chars("Order"), Chars("ORDER")>>

\* p occurs in s at position i
At(s, i, p) == i + Len(p) - 1 <= Len(s) /\ SubSeq(s, i, i + Len(p) - 1) = p

\* \b before position k of s
Boundary(s, k) ==
    (k > 1 /\ k - 1 <= Len(s) /\ IsWordChar(s[k - 1]))
        # (k <= Len(s) /\ IsWordChar(s[k]))

\* the number of spaces (\s) and of upper-case letters from position i on
RECURSIVE SpaceRun(_, _)
SpaceRun(s, i) == IF i <= Len(s) /\ s[i] = " " THEN 1 + SpaceRun(s, i + 1) ELSE 0
RECURSIVE UpperRun(_, _)
UpperRun(s, i) == IF i <= Len(s) /\ IsUpper(s[i]) THEN 1 + UpperRun(s, i + 1) ELSE 0

\* open(.+?)close at position q: the captured text, or None
Quoted(s, q, open, close) ==
    LET e == Find(s, <<close>>, q + 2) IN
    IF q <= Len(s) /\ s[q] = open /\ e # 0 THEN SubSeq(s, q + 1, e - 1) ELSE None

\* ([^,]+?)\b at position q: the shortest run without comma that ends at a
\* word boundary, or None
RECURSIVE Bare(_, _, _)
Bare(s, q, k) ==
    IF q + k - 1 > Len(s) \/ s[q + k - 1] = "," THEN None
    ELSE IF Boundary(s, q + k) THEN SubSeq(s, q, q + k - 1)
    ELSE Bare(s, q, k + 1)

\* (?:\s+[A-Z]{2,})+ from position i on: the position after the last
\* repetition, i itself when there is none
RECURSIVE CapsMore(_, _)
CapsMore(s, i) ==
    LET sp == SpaceRun(s, i)
        up == UpperRun(s, i + sp)
    IN  IF sp >= 1 /\ up >= 2 THEN CapsMore(s, i + sp + up) ELSE i

\* ([A-Z]{2,}(?:\s+[A-Z]{2,})+) at position q, or None
Caps(s, q) ==
    LET up == UpperRun(s, q)
        e == CapsMore(s, q + up)
    IN  IF up >= 2 /\ e > q + up THEN SubSeq(s, q, e - 1) ELSE None

\* the six alternatives at position q, in pattern order: the groups of the
\* first that matches (the group of that alternative alone is set), or None
Alternatives(s, q) ==
    LET g == <<Quoted(s, q, "\"", "\""), Quoted(s, q, "'", "'"),
               Quoted(s, q, LDQUO, RDQUO), Quoted(s, q, LOW9QUO, LDQUO),
               Bare(s, q, 1), Caps(s, q)>>
    IN  IF g = <<None, None, None, None, None, None>> THEN None
        ELSE LET first == CHOOSE k \in 1..6 :
                              g[k] # None /\ \A j \in 1..(k - 1) : g[j] = None
             IN  [k \in 1..6 |-> IF k = first THEN g[k] ELSE None]

\* \s+ is greedy and gives back one space at a time: n spaces start at j
RECURSIVE AfterSpaces(_, _, _)
AfterSpaces(s, j, n) ==
    IF n < 1 THEN None
    ELSE IF Alternatives(s, j + n) # None THEN Alternatives(s, j + n)
    ELSE AfterSpaces(s, j, n - 1)

\* the pattern at position p with cue word number c
MatchAt(s, p, c) ==
    LET j == p + Len(CueWords[c])
        j2 == IF j <= Len(s) /\ s[j] \in {",", ":"} THEN j + 1 ELSE j
    IN  IF At(s, p, CueWords[c]) THEN AfterSpaces(s, j2, SpaceRun(s, j2))
        ELSE None

\* re.search(pattern, s): the groups of the leftmost match, or None
RECURSIVE re_search_from(_, _)
re_search_from(s, p) ==
    IF p > Len(s) THEN None
    ELSE IF \E c \in 1..Len(CueWords) : MatchAt(s, p, c) # None
         THEN MatchAt(s, p, CHOOSE c \in 1..Len(CueWords) : MatchAt(s, p, c) # None)
    ELSE re_search_from(s, p + 1)

re_search(s) == re_search_from(s, 1)

\* lines 355-369: the album searched in the description.  match.group(1) is
\* the group of the first alternative, None when another alternative matched,
\* and titlecase(None) raises TypeError.
search_album(album_arg, desc) ==
    LET m == re_search(desc) IN
    IF m = None
    THEN [album |-> album_arg, match |-> m, raised |-> None,
          log |-> "Regex for album extraction failed"]
    ELSE IF m[1] = None
    THEN [album |-> album_arg, match |-> m, raised |-> Chars("TypeError"),
          log |-> ""]
    ELSE [album |-> titlecase(m[1]), match |-> m, raised |-> None,
          log |-> "Extracted album from description"]

\* resolve_album without the test of line 332: the description is searched
\* whatever the caller supplied
resolve_album_searching(album_arg, desc) == search_album(album_arg, desc)

\* lines 332-371: the album handed to set_tags
resolve_album(album_arg, desc) ==
    IF album_arg # <<>>
    THEN [album |-> album_arg, match |-> NotSearched, raised |-> None,
          log |-> "Using album supplied by user"]
    ELSE search_album(album_arg, desc)


-----------------------------------------------------------------------------
(* set_tags, find_genre, move_file *)

\* DESTINATION = "Q:\\": a Windows drive, whose file system keeps the casing
\* of a name and finds it whatever the casing asked for.  A directory of
\* DESTINATION is named by its on-disk name.

\* os.path.isdir(os.path.join(DESTINATION, name))
isdir(name, ds) == \E d \in ds : Lower(d) = Lower(name)

\* str(Path(os.path.join(DESTINATION, name)).resolve()): the on-disk name of
\* an existing directory, the name as given otherwise
resolve(name, ds) ==
    IF isdir(name, ds) THEN CHOOSE d \in ds : Lower(d) = Lower(name) ELSE name

\* lines 185-191: the artist set_tags writes and the directory it looks in
fix_artist_casing(art, ds) ==
    LET artist_dir_path == resolve(art, ds) IN
    [artist |-> IF isdir(artist_dir_path, ds) THEN basename(artist_dir_path)
                ELSE art,
     artist_dir_path |-> artist_dir_path]

\* what eyed3.load gives for a file: None, an object without tag, or an
\* object whose tag has a genre (None when the tag has no genre frame)
LoadNone == [loaded |-> FALSE, has_tag |-> FALSE, genre |-> None]
LoadNoTag == [loaded |-> TRUE, has_tag |-> FALSE, genre |-> None]
LoadTag(g) == [loaded |-> TRUE, has_tag |-> TRUE, genre |-> g]
NotLoaded == [loaded |-> FALSE, has_tag |-> FALSE, genre |-> <<"NOTLOADED">>]

\* load_failed without the test of line 179: every load counts as good
load_never_failed(file) == FALSE

\* lines 179-182: the test that ends the run
load_failed(file) == ~file.loaded \/ ~file.has_tag

\* lines 226-234: the genre the reference file gives, NoReference when the
\* layer gives none; str(None) is "None"
NoReference == <<"NOREFERENCE">>

\* reference_genre without the return of line 234: the reference file never
\* gives a genre
reference_genre_skipped(reference_file) == NoReference

reference_genre(reference_file) ==
    IF ~reference_file.loaded \/ ~reference_file.has_tag THEN NoReference
    ELSE IF reference_file.genre = None THEN Chars("None")
    ELSE reference_file.genre

\* line 237
Languages == <<"en", "de">>

\* the outcomes of one language's lookup: wikipedia.page raises PageError,
\* the page has no infobox, the infobox has no genre row, or the row's cell
\* holds these links
PageError == [kind |-> "PageError", links |-> <<>>]
NoInfobox == [kind |-> "NoInfobox", links |-> <<>>]
NoGenreRow == [kind |-> "NoGenreRow", links |-> <<>>]
GenreRow(links) == [kind |-> "GenreRow", links |-> links]

\* lines 261-263: ";".join(titlecase(a.text).replace("-", " ") for a in links)
genre_list(links) ==
    Join([i \in 1..Len(links) |->
              Replace(titlecase(links[i]), <<"-">>, <<" ">>)], <<";">>)

\* move_target without resolve(): the directory is named as the artist is
move_target_unresolved(art, ds) == art

\* lines 284-286: the directory move_file puts the file in
move_target(art, ds) == resolve(art, ds)

-----------------------------------------------------------------------------
(* The inputs *)

MaxArgs == 4     \* most arguments after the script name
MaxFiles == 1    \* most files listed in a reference directory
MaxLinks == 2    \* most links in a genre row
MaxWords == 4    \* most words of a title given to normalize_filename

\* the sequences over S of length 0..n
RECURSIVE SeqsUpTo(_, _)
SeqsUpTo(S, n) ==
    IF n = 0 THEN {<<>>}
    ELSE SeqsUpTo(S, n - 1)
         \cup {Append(q, x) : q \in {r \in SeqsUpTo(S, n - 1) : Len(r) = n - 1},
                              x \in S}

Url == Chars("https://y/w")
AlbumArgs == {<<>>, Chars("LP one")}
GenreArgs == {<<>>, Chars("Pop")}

\* sys.argv[1:]: the url, then the album, then the genre, then anything
Argvs ==
    {a \in SeqsUpTo({Url} \cup AlbumArgs \cup GenreArgs, MaxArgs) :
        /\ Len(a) >= 1 => a[1] = Url
        /\ Len(a) >= 2 => a[2] \in AlbumArgs
        /\ Len(a) >= 3 => a[3] \in GenreArgs
        /\ \A i \in 4..Len(a) : a[i] = Url}

\* what download_audio returns: the file name and the uploader
Videos ==
    {[filename |-> Chars("Ub - b (hq).mp3"), uploader |-> Chars("Ub")],
     [filename |-> Chars("b.mp3"), uploader |-> Chars("ub - Topic")],
     [filename |-> Chars("cd ft. b - c - d.mp3"), uploader |-> Chars("Ub")]}

Descriptions ==
    {Chars("out now, no cue"),
     Chars("Album \"DAWN of fire\" out"),
     Chars("album: 'dawn'"),
     Chars("EP ") \o <<LDQUO>> \o Chars("dawn") \o <<RDQUO>>,
     Chars("Single ") \o <<LOW9QUO>> \o Chars("dawn") \o <<LDQUO>>,
     Chars("the album dawn, out"),
     Chars("New single, Album \"Dawn of Fire\", out now")}

UploadDates == {Chars("20240131")}

\* the directories of DESTINATION before the run: no two names that differ
\* in casing only
DirNames == {Chars("UB"), Chars("Ub")}
DirSets ==
    {ds \in SUBSET DirNames :
        \A d, e \in ds : Lower(d) = Lower(e) => d = e}

ReferenceFiles ==
    {LoadNone, LoadNoTag, LoadTag(None), LoadTag(Chars("Metal"))}
Listings == SeqsUpTo(ReferenceFiles, MaxFiles)

LinkTexts == {Chars("hard-rock"), Chars("pop")}
LookupOutcomes ==
    {PageError, NoInfobox, NoGenreRow}
        \cup {GenreRow(l) : l \in SeqsUpTo(LinkTexts, MaxLinks)}

\* the tag fields set_tags assigns
EmptyTag ==
    [artist |-> None, genre |-> None, title |-> None,
     recording_date |-> None, album |-> None]

-----------------------------------------------------------------------------
(* The run *)

Init ==
    /\ pc = "main"
    /\ argv \in Argvs
    /\ dirs \in DirSets
    /\ album = <<>>
    /\ genre = <<>>
    /\ filename = <<>>
    /\ uploader = <<>>
    /\ description = <<>>
    /\ upload_date = <<>>
    /\ new_filename = <<>>
    /\ artist = <<>>
    /\ title = <<>>
    /\ year = <<>>
    /\ match = NotSearched
    /\ tag_artist = None
    /\ tag = EmptyTag
    /\ saved = EmptyTag
    /\ load_calls = 0
    /\ audio_file = NotLoaded
    /\ genre_call = None
    /\ ref_load = NotLoaded
    /\ wiki_calls = <<>>
    /\ log = <<>>
    /\ moved_to = None
    /\ exit_code = 0
    /\ raised = None

\* lines 403-414
main ==
    /\ pc = "main"
    /\ IF Len(argv) + 1 < 2 \/ Len(argv) + 1 > 4
       THEN /\ pc' = "exit"
            /\ exit_code' = 1
            /\ log' = Append(log, "Usage")
            /\ UNCHANGED <<album, genre>>
       ELSE /\ pc' = "download"
            /\ album' = IF Len(argv) + 1 >= 3 THEN argv[2] ELSE <<>>
            /\ genre' = IF Len(argv) + 1 >= 4 THEN argv[3] ELSE <<>>
            /\ UNCHANGED <<exit_code, log>>
    /\ UNCHANGED <<argv, filename, uploader, description, upload_date,
                   new_filename, artist, title, year, match, tag_artist, tag,
                   saved, load_calls, audio_file, genre_call, ref_load, wiki_calls, dirs,
                   moved_to, raised>>

\* line 306
download_audio ==
    /\ pc = "download"
    /\ \E v \in Videos, d \in Descriptions, u \in UploadDates :
        /\ filename' = v.filename
        /\ uploader' = v.uploader
        /\ description' = d
        /\ upload_date' = u
    /\ pc' = "normalize"
    /\ UNCHANGED <<argv, album, genre, new_filename, artist, title, year,
                   match, tag_artist, tag, saved, load_calls, audio_file, genre_call,
                   ref_load, wiki_calls, log, dirs, moved_to, exit_code,
                   raised>>

\* lines 309-315: the file takes its new name (an older file of that name
\* stays and the download is removed)
normalize ==
    /\ pc = "normalize"
    /\ new_filename' = normalize_filename(filename, uploader)
    /\ pc' = "split"
    /\ UNCHANGED <<argv, album, genre, filename, uploader, description,
                   upload_date, artist, title, year, match, tag_artist, tag,
                   saved, load_calls, audio_file, genre_call, ref_load, wiki_calls, log,
                   dirs, moved_to, exit_code, raised>>

\* lines 317-324
split ==
    /\ pc = "split"
    /\ artist' = split_artist_title(new_filename, uploader).artist
    /\ title' = split_artist_title(new_filename, uploader).title
    /\ pc' = "edit"
    /\ UNCHANGED <<argv, album, genre, filename, uploader, description,
                   upload_date, new_filename, year, match, tag_artist, tag,
                   saved, load_calls, audio_file, genre_call, ref_load, wiki_calls, log,
                   dirs, moved_to, exit_code, raised>>

\* line 327: edit_audio; mp3gain is run with check=True
edit_audio ==
    /\ pc = "edit"
    /\ \/ /\ pc' = "album"
          /\ UNCHANGED raised
       \/ /\ pc' = "raised"
          /\ raised' = Chars("CalledProcessError")
    /\ UNCHANGED <<argv, album, genre, filename, uploader, description,
                   upload_date, new_filename, artist, title, year, match,
                   tag_artist, tag, saved, load_calls, audio_file, genre_call, ref_load,
                   wiki_calls, log, dirs, moved_to, exit_code>>

\* lines 330-371
extract_album ==
    /\ pc = "album"
    /\ year' = UpTo(upload_date, 4)
    /\ LET r == resolve_album(album, description) IN
        /\ album' = r.album
        /\ match' = r.match
        /\ raised' = r.raised
        /\ log' = IF r.log = "" THEN log ELSE Append(log, r.log)
        /\ pc' = IF r.raised = None THEN "set_tags" ELSE "raised"
    /\ UNCHANGED <<argv, genre, filename, uploader, description, upload_date,
                   new_filename, artist, title, tag_artist, tag, saved,
                   load_calls, audio_file, genre_call, ref_load, wiki_calls, dirs,
                   moved_to, exit_code>>

\* lines 177-196: load the file, fix the artist's casing, take the genre of
\* the caller or go and find one
set_tags ==
    /\ pc = "set_tags"
    /\ load_calls' = load_calls + 1
    /\ \E loaded \in {LoadNone, LoadNoTag, LoadTag(None)} :
        /\ audio_file' = loaded
        /\ IF load_failed(loaded)
           THEN /\ pc' = "exit"
                /\ exit_code' = 2
                /\ log' = Append(log, "eyeD3 wasn't able to load the file")
                /\ UNCHANGED <<tag_artist, tag, genre_call>>
           ELSE LET fixed == fix_artist_casing(artist, dirs) IN
                /\ tag_artist' = fixed.artist
                /\ IF genre = <<>>
                   THEN /\ pc' = "find_genre"
                        /\ genre_call' = <<fixed.artist, fixed.artist_dir_path>>
                        /\ tag' = [tag EXCEPT !.artist = fixed.artist]
                   ELSE /\ pc' = "save"
                        /\ genre_call' = genre_call
                        /\ tag' = [tag EXCEPT !.artist = fixed.artist,
                                              !.genre = genre]
                /\ UNCHANGED <<exit_code, log>>
    /\ UNCHANGED <<argv, album, genre, filename, uploader, description,
                   upload_date, new_filename, artist, title, year, match,
                   saved, ref_load, wiki_calls, dirs, moved_to, raised>>

\* lines 221-234: the reference files
find_genre_reference ==
    /\ pc = "find_genre"
    /\ IF isdir(genre_call[2], dirs)
       THEN \E artist_files \in Listings :
            IF Len(artist_files) > 0
            THEN /\ ref_load' = artist_files[1]
                 /\ IF reference_genre(artist_files[1]) = NoReference
                    THEN /\ log' = Append(log, "eyeD3 wasn't able to load the reference file")
                         /\ pc' = "wikipedia"
                         /\ UNCHANGED <<genre, tag>>
                    ELSE /\ log' = Append(log, "Using existing references for genre")
                         /\ genre' = reference_genre(artist_files[1])
                         /\ tag' = [tag EXCEPT !.genre = reference_genre(artist_files[1])]
                         /\ pc' = "save"
            ELSE /\ pc' = "wikipedia"
                 /\ UNCHANGED <<ref_load, log, genre, tag>>
       ELSE /\ pc' = "wikipedia"
            /\ UNCHANGED <<ref_load, log, genre, tag>>
    /\ UNCHANGED <<argv, album, filename, uploader, description, upload_date,
                   new_filename, artist, title, year, match, tag_artist,
                   saved, load_calls, audio_file, genre_call, wiki_calls, dirs, moved_to,
                   exit_code, raised>>

\* lines 237-263: one turn of the loop over the languages
find_genre_wikipedia ==
    /\ pc = "wikipedia"
    /\ Len(wiki_calls) < Len(Languages)
    /\ \E outcome \in LookupOutcomes :
        LET lang == Languages[Len(wiki_calls) + 1] IN
        /\ wiki_calls' = Append(wiki_calls, <<lang, outcome>>)
        /\ IF outcome.kind = "GenreRow"
           THEN /\ genre' = genre_list(outcome.links)
                /\ tag' = [tag EXCEPT !.genre = genre_list(outcome.links)]
                /\ pc' = "save"
                /\ UNCHANGED log
           ELSE /\ log' = IF outcome.kind = "PageError"
                          THEN Append(log, "Couldn't find a Wikipedia page")
                          ELSE IF outcome.kind = "NoInfobox"
                          THEN Append(log, "Couldn't find an infobox")
                          ELSE log
                /\ UNCHANGED <<genre, tag, pc>>
    /\ UNCHANGED <<argv, album, filename, uploader, description, upload_date,
                   new_filename, artist, title, year, match, tag_artist,
                   saved, load_calls, audio_file, genre_call, ref_load, dirs, moved_to,
                   exit_code, raised>>

\* lines 265-268: every language was tried
find_genre_missing ==
    /\ pc = "wikipedia"
    /\ Len(wiki_calls) = Len(Languages)
    /\ log' = Append(log, "Still missing genre tag")
    /\ genre' = <<>>
    /\ tag' = [tag EXCEPT !.genre = <<>>]
    /\ pc' = "save"
    /\ UNCHANGED <<argv, album, filename, uploader, description, upload_date,
                   new_filename, artist, title, year, match, tag_artist,
                   saved, load_calls, audio_file, genre_call, ref_load, wiki_calls, dirs,
                   moved_to, exit_code, raised>>

\* lines 198-202
set_tags_save ==
    /\ pc = "save"
    /\ tag' = [tag EXCEPT !.title = title, !.recording_date = year,
                          !.album = album]
    /\ saved' = [tag EXCEPT !.title = title, !.recording_date = year,
                            !.album = album]
    /\ pc' = "move"
    /\ UNCHANGED <<argv, album, genre, filename, uploader, description,
                   upload_date, new_filename, artist, title, year, match,
                   tag_artist, load_calls, audio_file, genre_call, ref_load, wiki_calls,
                   log, dirs, moved_to, exit_code, raised>>

\* lines 284-288
move_file ==
    /\ pc = "move"
    /\ dirs' = dirs \cup {move_target(artist, dirs)}
    /\ moved_to' = <<move_target(artist, dirs), title \o Chars(".mp3")>>
    /\ pc' = "done"
    /\ UNCHANGED <<argv, album, genre, filename, uploader, description,
                   upload_date, new_filename, artist, title, year, match,
                   tag_artist, tag, saved, load_calls, audio_file, genre_call, ref_load,
                   wiki_calls, log, exit_code, raised>>

Next ==
    \/ main
    \/ download_audio
    \/ normalize
    \/ split
    \/ edit_audio
    \/ extract_album
    \/ set_tags
    \/ find_genre_reference
    \/ find_genre_wikipedia
    \/ find_genre_missing
    \/ set_tags_save
    \/ move_file

Spec == Init /\ [][Next]_vars


-----------------------------------------------------------------------------
(* normalize_filename and the split, on many names *)

\* a title is words with a separator between each two
NameWords == {Chars("b"), Chars("c.mp3"), Chars("Ub")}
Separators == {Chars(" - "), Chars(" feat. "), Chars(" ft. "), Chars(" // ")}

\* the titles of exactly n words
RECURSIVE TitlesOf(_)
TitlesOf(n) ==
    IF n = 1 THEN NameWords
    ELSE {t \o sep \o w : t \in TitlesOf(n - 1), sep \in Separators,
                           w \in NameWords}

Titles == UNION {TitlesOf(n) : n \in 1..MaxWords}

\* download_audio names the file after the title, with the extension .mp3;
\* normalize_filename alone is also given the shortest names as they are
Filenames == {t \o Mp3 : t \in Titles} \cup TitlesOf(2)
Uploaders == {Chars("Ub"), Chars("ub")}

InitNormalize ==
    /\ pc = "normalize"
    /\ argv = <<Url>>
    /\ dirs = {}
    /\ album = <<>>
    /\ genre = <<>>
    /\ filename \in Filenames
    /\ uploader \in Uploaders
    /\ description = <<>>
    /\ upload_date = <<>>
    /\ new_filename = <<>>
    /\ artist = <<>>
    /\ title = <<>>
    /\ year = <<>>
    /\ match = NotSearched
    /\ tag_artist = None
    /\ tag = EmptyTag
    /\ saved = EmptyTag
    /\ load_calls = 0
    /\ audio_file = NotLoaded
    /\ genre_call = None
    /\ ref_load = NotLoaded
    /\ wiki_calls = <<>>
    /\ log = <<>>
    /\ moved_to = None
    /\ exit_code = 0
    /\ raised = None

NextNormalize == normalize \/ split

SpecNormalize == InitNormalize /\ [][NextNormalize]_vars


-----------------------------------------------------------------------------
(* The properties of the run, under Spec *)

\* main ends the run with the usage message
UsageError == Len(argv) + 1 < 2 \/ Len(argv) + 1 > 4

\* the album and the genre the caller supplied ("" when not given)
AlbumArg == IF Len(argv) >= 2 THEN argv[2] ELSE <<>>
GenreArg == IF Len(argv) >= 3 THEN argv[3] ELSE <<>>

\* msg was logged
Logged(msg) == \E i \in 1..Len(log) : log[i] = msg

\* set_tags has assigned the genre; the tag has been saved
GenreAssigned == pc \in {"save", "move", "done"}
TagSaved == pc \in {"move", "done"}

\* C1: the genre comes from the first layer that yields one, in the order
\* caller, reference file, encyclopedia.  With a non-empty genre from the
\* caller find_genre is never called, no reference file is loaded, no
\* encyclopedia page is asked for, and the tag gets the caller's genre.  When
\* the first file of the artist's directory loads with a tag of genre G, the
\* genre is G and no encyclopedia page is asked for.  A reference file is
\* looked at only when the caller gave no genre.
C1_GenreLayersInOrder ==
    /\ (~UsageError /\ GenreArg # <<>>) =>
          /\ genre_call = None
          /\ ref_load = NotLoaded
          /\ wiki_calls = <<>>
          /\ GenreAssigned => tag.genre = GenreArg
          /\ TagSaved => saved.genre = GenreArg
    /\ (ref_load.loaded /\ ref_load.has_tag /\ ref_load.genre # None) =>
          /\ wiki_calls = <<>>
          /\ genre = ref_load.genre
          /\ tag.genre = ref_load.genre
          /\ TagSaved => saved.genre = ref_load.genre
    /\ (ref_load # NotLoaded \/ wiki_calls # <<>>) =>
          GenreArg = <<>> /\ genre_call # None

\* C1: a run that ended with the genre of the reference file saved, no
\* encyclopedia page asked for
C1_Witness ==
    /\ pc = "done"
    /\ ref_load = LoadTag(Chars("Metal"))
    /\ saved.genre = Chars("Metal")
    /\ wiki_calls = <<>>

\* C2: a non-empty album from the caller is the album of the tag, unchanged,
\* and the description is never searched; the description is searched only
\* when the caller gave no album; when the search finds nothing the album
\* handed to set_tags is the empty string, nothing is raised, and the run goes
\* on to the saved tag and the moved file.
C2_CallerAlbumWins ==
    /\ (~UsageError /\ AlbumArg # <<>>) =>
          /\ match = NotSearched
          /\ pc # "main" => album = AlbumArg
          /\ TagSaved => saved.album = AlbumArg
    /\ match # NotSearched => AlbumArg = <<>>
    /\ match = None =>
          /\ album = <<>>
          /\ raised = None
          /\ pc \in {"set_tags", "find_genre", "wikipedia", "save", "move",
                     "done", "exit"}
          /\ pc = "exit" => exit_code = 2
          /\ TagSaved => saved.album = <<>>
          /\ pc = "done" => moved_to # None

\* C2: a run whose description held no album, ended with the empty album
\* saved and the file moved
C2_Witness ==
    /\ pc = "done"
    /\ match = None
    /\ saved.album = <<>>
    /\ moved_to # None

\* C3: when the file does not load or has no tag, the run ends with status 2,
\* which is not the status 1 of the usage message; no tag field is assigned
\* or saved, find_genre is not called, no reference file is loaded, no page
\* is asked for, the file is not moved, and the load is made once.
C3_LoadFailureEndsRun ==
    /\ (load_calls >= 1 /\ (~audio_file.loaded \/ ~audio_file.has_tag)) =>
          /\ pc = "exit"
          /\ exit_code = 2
          /\ tag = EmptyTag
          /\ saved = EmptyTag
          /\ genre_call = None
          /\ ref_load = NotLoaded
          /\ wiki_calls = <<>>
          /\ moved_to = None
          /\ load_calls = 1
    /\ exit_code = 1 <=> (pc = "exit" /\ UsageError)
    /\ exit_code = 2 <=>
          (pc = "exit" /\ ~UsageError /\ (~audio_file.loaded \/ ~audio_file.has_tag))
    /\ exit_code \in {0, 1, 2}
    /\ load_calls <= 1

\* C3: a run ended by a file that loaded without a tag
C3_Witness ==
    /\ pc = "exit"
    /\ exit_code = 2
    /\ audio_file = LoadNoTag
    /\ moved_to = None

\* the directories whose name is the artist's in another or the same casing
ArtistDirs == {d \in dirs : Lower(d) = Lower(artist)}

\* C9: when a directory of the artist exists, in whatever casing, its
\* on-disk name is the artist of the tag, find_genre is called with that name
\* and that directory, and the file is moved into that directory; no two
\* directories ever differ in casing only.  Without such a directory the
\* artist is used as derived.
C9_OnDiskCasingWins ==
    /\ \A d, e \in dirs : Lower(d) = Lower(e) => d = e
    /\ pc \in {"find_genre", "wikipedia", "save", "move", "done"} =>
          /\ \A d \in ArtistDirs :
                /\ tag.artist = d
                /\ genre_call # None => genre_call = <<d, d>>
          /\ ArtistDirs = {} => tag.artist = artist
          /\ GenreArg = <<>> => genre_call = <<tag.artist, tag.artist>>
    /\ pc = "done" =>
          /\ moved_to[1] = tag.artist
          /\ moved_to[1] \in dirs
          /\ saved.artist = tag.artist

\* C9: a run that ended with the file in a directory whose casing is not the
\* derived artist's, the tag and the find_genre call carrying that casing
C9_Witness ==
    /\ pc = "done"
    /\ moved_to[1] # artist
    /\ Lower(moved_to[1]) = Lower(artist)
    /\ saved.artist = moved_to[1]
    /\ genre_call = <<moved_to[1], moved_to[1]>>

\* C6: whenever the pattern matches, the album is the title-cased text of the
\* first group, in pattern order, that captured text, and is not empty;
\* nothing is raised and the run goes on.
C6_AlbumFromFirstCapture ==
    (match # NotSearched /\ match # None) =>
        /\ raised = None
        /\ pc # "raised"
        /\ album = titlecase(match[CHOOSE k \in 1..6 : match[k] # None])
        /\ album # <<>>

\* C7: when the first file of the artist's directory does not load, has no
\* tag, or has a tag without genre, the failure is logged, the reference
\* layer gives no value, the encyclopedia is asked next, nothing is raised.
C7_ReferenceFailureFallsThrough ==
    (/\ ref_load # NotLoaded
     /\ ~ref_load.loaded \/ ~ref_load.has_tag \/ ref_load.genre = None) =>
        /\ Logged("eyeD3 wasn't able to load the reference file")
        /\ ~Logged("Using existing references for genre")
        /\ pc = "wikipedia" \/ wiki_calls # <<>>
        /\ raised = None

\* C8: the languages are asked in the order of Languages, a language is
\* asked only after every language before it failed, nothing is raised; the
\* genre is the genre list of the first language with a genre row, and it is
\* the empty string only after every language has failed and the missing
\* genre has been logged.
C8_LanguagesInOrder ==
    /\ \A i \in 1..Len(wiki_calls) : wiki_calls[i][1] = Languages[i]
    /\ \A i \in 1..(Len(wiki_calls) - 1) : wiki_calls[i][2].kind # "GenreRow"
    /\ wiki_calls # <<>> => raised = None /\ pc # "raised"
    /\ (GenreAssigned /\ wiki_calls # <<>>) =>
          /\ wiki_calls[Len(wiki_calls)][2].kind = "GenreRow" =>
                genre = genre_list(wiki_calls[Len(wiki_calls)][2].links)
          /\ wiki_calls[Len(wiki_calls)][2].kind # "GenreRow" =>
                Len(wiki_calls) = Len(Languages) /\ genre = <<>>
          /\ genre = <<>> =>
                /\ Len(wiki_calls) = Len(Languages)
                /\ \A i \in 1..Len(wiki_calls) :
                      wiki_calls[i][2].kind # "GenreRow"
                /\ Logged("Still missing genre tag")

-----------------------------------------------------------------------------
(* The properties of normalize_filename and the split, under SpecNormalize *)

\* name without its extension .mp3, name itself when it has none
WithoutExtension(name) ==
    IF Len(name) >= Len(Mp3) /\ From(name, Len(name) - Len(Mp3)) = Mp3
    THEN SubSeq(name, 1, Len(name) - Len(Mp3))
    ELSE name

\* C4: the name is parted at its first " - ": the artist is the text before
\* it, the title the text after it without the extension; a name without
\* " - " gives the name without the extension as title and the title-cased
\* uploader, " - Topic" removed, as artist.
C4_SplitAtFirstSeparator ==
    pc = "edit" =>
        IF Find(new_filename, Separator, 1) # 0
        THEN /\ artist = SubSeq(new_filename, 1,
                                Find(new_filename, Separator, 1) - 1)
             /\ title = WithoutExtension(From(new_filename,
                            Find(new_filename, Separator, 1) + 2))
        ELSE /\ artist = titlecase(Replace(uploader, Topic, <<>>))
             /\ title = WithoutExtension(new_filename)

\* C5: a name that ends in " // " and the uploader's name, in any casing,
\* before its extension or without one, is normalized to what the name
\* without that suffix is normalized to.
C5_UploaderSuffixRemoved ==
    pc = "split" =>
        \A V \in Uploaders, ext \in {<<>>, Mp3} :
            (/\ Lower(V) = Lower(uploader)
             /\ Len(filename) > Len(Slashes \o V \o ext)
             /\ From(filename, Len(filename) - Len(Slashes \o V \o ext))
                    = Slashes \o V \o ext) =>
                new_filename =
                    normalize_filename(
                        SubSeq(filename, 1,
                               Len(filename) - Len(Slashes \o V \o ext)) \o ext,
                        uploader)

\* the cleaned name X feat. Y with " - " in Y, in the order
\* X - (Y after its " - ") feat. (Y before its " - ")
FeatBehindTitle(name) ==
    LET f == Find(name, Feat, 1)
        Y == From(name, f + Len(Feat) - 1)
        d == Find(Y, Separator, 1)
    IN  IF f # 0 /\ d # 0
        THEN SubSeq(name, 1, f - 1) \o Separator \o From(Y, d + 2)
             \o Feat \o SubSeq(Y, 1, d - 1)
        ELSE name

\* C10: a cleaned name X feat. Y whose Y holds " - " is put in the order
\* X - (all of Y after its " - ") feat. (Y before its " - "), nothing of the
\* name dropped; any other name keeps its order; " Feat. " is never written.
C10_FeatMovedBehindTitle ==
    pc = "split" =>
        /\ Find(new_filename, FeatTitled, 1) = 0
        /\ new_filename =
              Replace(titlecase(FeatBehindTitle(Head(cleaned_name(filename, uploader))))
                          \o Head(Tail(cleaned_name(filename, uploader))),
                      FeatTitled, Feat)

====
